---- MODULE Spec2Model ----
(***************************************************************************)
(* ORF finder (ORF_finder_regex.py): find_orfs scans a nucleotide string   *)
(* and its reverse complement with an overlapping (lookahead) pattern,     *)
(* maps every match to 1-based coordinates of the original sequence,       *)
(* groups the matches by reading frame and prunes, per frame, the ranges   *)
(* contained in a longer one (remove_contained_ranges).                    *)
(*                                                                         *)
(* A nucleotide string is a sequence of one-character strings; offsets     *)
(* named s, e, i, j are the 0-based offsets of Python (match.start(1),     *)
(* match.end(1)), so that seq[j:j+3] is <<seq[j+1], seq[j+2], seq[j+3]>>.  *)
(* The input mapping holds one record; records are processed              *)
(* independently, each into its own orfs[record_id].                       *)
(***************************************************************************)
EXTENDS Integers, Sequences, FiniteSets, TLC

VARIABLES dna_sequence, min_dna_len, strand, seq, pos, matches, orfs, pc,
          ranges, reversed, result

vars == <<dna_sequence, min_dna_len, strand, seq, pos, matches, orfs, pc,
          ranges, reversed, result>>

-----------------------------------------------------------------------------
(* Bounds of the model *)

MaxLen == 5        \* every string over the alphabet up to this length is an input
MaxCodons == 4     \* inputs built from whole codons: up to this many codons
MaxLenN == 5       \* strings with symbols outside {A,C,G,T}: up to this length
MaxRanges == 3     \* remove_contained_ranges called alone: length of the list
MaxCoord == 3      \* remove_contained_ranges called alone: largest coordinate

-----------------------------------------------------------------------------
(* Alphabet, codons, reverse complement *)

Nucleotides == {"A", "C", "G", "T"}

\* Symbols outside {A,C,G,T}: an ambiguity code and a line feed (which the
\* pattern's $ treats specially).
OtherSymbols == {"N", "\n"}

Complement(c) ==
    CASE c = "A" -> "T"
      [] c = "T" -> "A"
      [] c = "C" -> "G"
      [] c = "G" -> "C"
      [] OTHER -> c

reverse_complement(s) == [i \in 1..Len(s) |-> Complement(s[Len(s) + 1 - i])]

\* seq[j:j+3] == codon, for a 0-based offset j
CodonAt(sq, j, codon) ==
    /\ j + 3 <= Len(sq)
    /\ <<sq[j + 1], sq[j + 2], sq[j + 3]>> = codon

StartCodon == <<"A", "T", "G">>

StopCodons == {<<"T", "A", "A">>, <<"T", "A", "G">>, <<"T", "G", "A">>}

\* TAA|TAG|TGA at offset j
StopAt(sq, j) == \E c \in StopCodons : CodonAt(sq, j, c)

\* a variant: .{3}, any three symbols taken as a codon
AnyCodonAt_AnySymbol(sq, j) == j + 3 <= Len(sq)

\* [ATGC]{3} at offset j
AnyCodonAt(sq, j) ==
    /\ j + 3 <= Len(sq)
    /\ \A k \in 1..3 : sq[j + k] \in Nucleotides

\* [ATCG]{n} at offset j
NucRun(sq, j, n) ==
    /\ j + n <= Len(sq)
    /\ \A k \in 1..n : sq[j + k] \in Nucleotides

\* $ at offset j: the end of the string, or just before a line feed that ends it
Dollar(sq, j) ==
    \/ j = Len(sq)
    \/ j = Len(sq) - 1 /\ sq[Len(sq)] = "\n"

\* (?=[ATCG]{1,2}?$) at offset j: zero-width
LookaheadTail(sq, j) ==
    \/ NucRun(sq, j, 1) /\ Dollar(sq, j + 1)
    \/ NucRun(sq, j, 2) /\ Dollar(sq, j + 2)

\* (?:[ATCG]{1,2})?$ at offset j: the offset after it, -1 when it fails
OptionalTail(sq, j) ==
    IF NucRun(sq, j, 2) /\ Dollar(sq, j + 2) THEN j + 2
    ELSE IF NucRun(sq, j, 1) /\ Dollar(sq, j + 1) THEN j + 1
    ELSE IF Dollar(sq, j) THEN j
    ELSE -1

\* a variant: without the lookahead alternative, so that a tail is consumed
Terminator_TailConsumed(sq, j) ==
    IF StopAt(sq, j) THEN j + 3 ELSE OptionalTail(sq, j)

\* (?:TAA|TAG|TGA|(?=[ATCG]{1,2}?$)|(?:[ATCG]{1,2})?$) at offset j, the
\* alternatives tried in this order: the offset after it, -1 when it fails
Terminator(sq, j) ==
    IF StopAt(sq, j) THEN j + 3
    ELSE IF LookaheadTail(sq, j) THEN j
    ELSE OptionalTail(sq, j)

\* a variant: the greedy repetition (?:[ATGC]{3})*, which takes codons
\* while it can and gives one back only when the terminator fails
RECURSIVE GreedyCodons(_, _)
GreedyCodons(sq, j) ==
    IF AnyCodonAt(sq, j) /\ GreedyCodons(sq, j + 3) # -1
    THEN GreedyCodons(sq, j + 3)
    ELSE Terminator(sq, j)

\* (?:[ATGC]{3})*?(?:...) at offset j: the lazy repetition tries the
\* terminator first and takes one more codon only when it fails
RECURSIVE LazyCodons(_, _)
LazyCodons(sq, j) ==
    LET t == Terminator(sq, j)
    IN  IF t # -1 THEN t
        ELSE IF AnyCodonAt(sq, j) THEN LazyCodons(sq, j + 3)
        ELSE -1

\* group 1 of the pattern tried at offset i: match.end(1), -1 when no match
pattern(sq, i) ==
    IF CodonAt(sq, i, StartCodon) THEN LazyCodons(sq, i + 3) ELSE -1

\* a variant: the pattern without the enclosing lookahead, whose matches
\* consume their span, so that the search resumes after it
ResumeAt_Consuming(s, e) == e

\* finditer: the whole pattern is a lookahead, (?=(...)), so every match is
\* empty and the search resumes one offset after the match's start, whatever
\* group 1 spans
ResumeAt(s, e) == s + 1

\* finditer: the pattern is tried at offset p, then p + 1, ... up to the end
\* of the string; the offset of the next match, -1 if none
RECURSIVE NextMatchStart(_, _)
NextMatchStart(sq, p) ==
    IF p > Len(sq) THEN -1
    ELSE IF pattern(sq, p) # -1 THEN p
    ELSE NextMatchStart(sq, p + 1)

-----------------------------------------------------------------------------
(* The body of the match loop *)

EmptyDict == <<>>

\* a variant: the reverse strand numbered from 0
start_index_ZeroBased(st, len_seq, s) == IF st = 1 THEN len_seq - s - 1 ELSE s + 1

start_index(st, len_seq, s) == IF st = 1 THEN len_seq - s ELSE s + 1

\* a variant: the reverse strand's end without its + 1
end_index_NoPlusOne(st, len_seq, e) == IF st = 1 THEN len_seq - e ELSE e

end_index(st, len_seq, e) == IF st = 1 THEN len_seq - e + 1 ELSE e

\* a variant: the frame taken modulo 2
frame_Mod2(start) == (start - 1) % 2

frame(start) == (start - 1) % 3

\* a variant: the filter without its minimum length
LengthFilter_NoMinimum(orf, L) == Len(orf) % 3 = 0

\* the filter of lines 88-89
LengthFilter(orf, L) == Len(orf) % 3 = 0 /\ Len(orf) >= L

\* lines 83-90 for the match [s, e) of strand st; d is orfs[record_id][strand]
ProcessMatch(d, st, len_seq, L, sq, s, e) ==
    LET orf == SubSeq(sq, s + 1, e)
        si == start_index(st, len_seq, s)
        ei == end_index(st, len_seq, e)
        f == frame(si)
        d1 == IF f \in DOMAIN d THEN d ELSE (f :> <<>>) @@ d
    IN  IF LengthFilter(orf, L)
        THEN [d1 EXCEPT ![f] = Append(@, <<si, ei, orf>>)]
        ELSE d1

\* lines 81-90: the match loop run to exhaustion from search offset p
RECURSIVE ScanFrom(_, _, _, _, _, _)
ScanFrom(d, st, len_seq, L, sq, p) ==
    IF NextMatchStart(sq, p) = -1 THEN d
    ELSE LET s == NextMatchStart(sq, p)
             e == pattern(sq, s)
         IN  ScanFrom(ProcessMatch(d, st, len_seq, L, sq, s, e), st, len_seq, L, sq,
                      ResumeAt(s, e))

-----------------------------------------------------------------------------
(* remove_contained_ranges *)

\* a variant: ties on the start broken by the smaller stop first
KeyOf_AscendingTie(r, rev) == IF rev THEN <<r[2], r[1]>> ELSE <<r[1], r[2]>>

\* the sort key of lines 42-43, compared as Python compares tuples
KeyOf(r, rev) == IF rev THEN <<r[2], -r[1]>> ELSE <<r[1], -r[2]>>

KeyLess(k1, k2) == k1[1] < k2[1] \/ (k1[1] = k2[1] /\ k1[2] < k2[2])

\* list.sort is stable: r goes after every element whose key is not greater
RECURSIVE InsertSorted(_, _, _)
InsertSorted(sorted, r, rev) ==
    IF sorted = <<>> THEN <<r>>
    ELSE IF KeyLess(KeyOf(r, rev), KeyOf(sorted[Len(sorted)], rev))
         THEN Append(InsertSorted(SubSeq(sorted, 1, Len(sorted) - 1), r, rev),
                     sorted[Len(sorted)])
         ELSE Append(sorted, r)

RECURSIVE SortRanges(_, _)
SortRanges(rs, rev) ==
    IF rs = <<>> THEN <<>>
    ELSE InsertSorted(SortRanges(SubSeq(rs, 1, Len(rs) - 1), rev), rs[Len(rs)], rev)

\* start, end = (b, a) if reversed else (a, b): the end of a range
EndOf(r, rev) == IF rev THEN r[1] ELSE r[2]

\* a variant: end >= prev_end
Keep_OrEqual(end, prev_end) == end >= prev_end

\* line 51: if end > prev_end
Keep(end, prev_end) == end > prev_end

\* lines 44-54 over the sorted list, from index k on
RECURSIVE Sweep(_, _, _, _, _)
Sweep(sorted, k, prev_end, res, rev) ==
    IF k > Len(sorted) THEN res
    ELSE IF Keep(EndOf(sorted[k], rev), prev_end)
         THEN Sweep(sorted, k + 1, EndOf(sorted[k], rev), Append(res, sorted[k]), rev)
         ELSE Sweep(sorted, k + 1, prev_end, res, rev)

remove_contained_ranges(rs, rev) == Sweep(SortRanges(rs, rev), 1, -1, <<>>, rev)

\* line 93: every frame list of the strand's dict is replaced by its pruning
DedupFrames(d, st) == [f \in DOMAIN d |-> remove_contained_ranges(d[f], st = 1)]

\* lines 77-93 for one strand of the sequence dna: orfs[record_id][strand]
StrandOrfs(dna, st, L) ==
    DedupFrames(ScanFrom(EmptyDict, st, Len(dna), L,
                         IF st = 1 THEN reverse_complement(dna) ELSE dna, 0), st)

-----------------------------------------------------------------------------
(* Inputs *)

\* codons that make ORFs on either strand: start, stop, a plain codon, and
\* the reverse complements of start and stop
CodonVocabulary ==
    {<<"A", "T", "G">>, <<"T", "A", "A">>, <<"A", "A", "A">>,
     <<"C", "A", "T">>, <<"T", "T", "A">>}

\* what may follow the last whole codon: nothing, or 2 nucleotides that make
\* an out-of-frame ATG after a codon ending in A
Tails == {<<>>, <<"T", "G">>}

\* the string made of the codons cs[1], cs[2], ...
RECURSIVE Concat(_)
Concat(cs) == IF Len(cs) = 0 THEN <<>> ELSE Concat(SubSeq(cs, 1, Len(cs) - 1)) \o cs[Len(cs)]

\* min_dna_len: no minimum in effect, and two codons
MinDnaLens == {1, 6}

-----------------------------------------------------------------------------
(* find_orfs as a state machine: one step per iteration of the match loop, *)
(* one per strand for line 93                                              *)

\* find_orfs(sequences, min_dna_len) entered with one record, at the match
\* loop of strand 0
StartFind(dna, L) ==
    /\ dna_sequence = dna
    /\ min_dna_len = L
    /\ strand = 0
    /\ seq = dna
    /\ pos = 0
    /\ matches = (0 :> <<>>)
    /\ orfs = (0 :> EmptyDict)
    /\ pc = "scan"
    /\ ranges = <<>>
    /\ reversed = FALSE
    /\ result = <<>>

\* the input is any string over {A,C,G,T} up to MaxLen, or up to MaxCodons
\* codons of the vocabulary followed by a tail, or the reverse complement of
\* such a string
Init ==
    \E L \in MinDnaLens :
        \/ \E n \in 0..MaxLen : \E w \in [1..n -> Nucleotides] : StartFind(w, L)
        \/ \E k \in 0..MaxCodons : \E cs \in [1..k -> CodonVocabulary] : \E tl \in Tails :
              \/ StartFind(Concat(cs) \o tl, L)
              \/ StartFind(reverse_complement(Concat(cs) \o tl), L)

\* the input is any string over the six symbols up to MaxLenN, alone or after
\* an ATG
InitAny ==
    \E n \in 0..MaxLenN : \E w \in [1..n -> Nucleotides \cup OtherSymbols] :
        \/ StartFind(w, 1)
        \/ StartFind(StartCodon \o w, 1)

\* lines 82-90: finditer yields its next match and the loop body handles it
MatchStep ==
    /\ pc = "scan"
    /\ NextMatchStart(seq, pos) # -1
    /\ LET s == NextMatchStart(seq, pos)
           e == pattern(seq, s)
       IN  /\ matches' = [matches EXCEPT ![strand] = Append(@, <<s, e>>)]
           /\ orfs' = [orfs EXCEPT ![strand] =
                         ProcessMatch(@, strand, Len(dna_sequence), min_dna_len, seq, s, e)]
           /\ pos' = ResumeAt(s, e)
    /\ UNCHANGED <<dna_sequence, min_dna_len, strand, seq, pc, ranges, reversed, result>>

\* finditer is exhausted on strand 0: line 93, then lines 77-81 for strand 1
DedupForward ==
    /\ pc = "scan"
    /\ strand = 0
    /\ NextMatchStart(seq, pos) = -1
    /\ orfs' = (1 :> EmptyDict) @@ [orfs EXCEPT ![0] = DedupFrames(@, 0)]
    /\ matches' = (1 :> <<>>) @@ matches
    /\ strand' = 1
    /\ seq' = reverse_complement(dna_sequence)
    /\ pos' = 0
    /\ UNCHANGED <<dna_sequence, min_dna_len, pc, ranges, reversed, result>>

\* finditer is exhausted on strand 1: line 93, then return orfs
DedupReverse ==
    /\ pc = "scan"
    /\ strand = 1
    /\ NextMatchStart(seq, pos) = -1
    /\ orfs' = [orfs EXCEPT ![1] = DedupFrames(@, 1)]
    /\ pc' = "done"
    /\ UNCHANGED <<dna_sequence, min_dna_len, strand, seq, pos, matches, ranges, reversed, result>>

Next == MatchStep \/ DedupForward \/ DedupReverse

Spec == Init /\ [][Next]_vars

SpecAny == InitAny /\ [][Next]_vars

-----------------------------------------------------------------------------
(* remove_contained_ranges called on its own *)

\* the list holds up to MaxRanges ranges [a, b, obj] with coordinates in
\* 1..MaxCoord; obj is the range's place in the list passed in
InitSweep ==
    /\ \E n \in 0..MaxRanges : \E p \in [1..n -> (1..MaxCoord) \X (1..MaxCoord)] :
          ranges = [i \in 1..n |-> <<p[i][1], p[i][2], i>>]
    /\ reversed \in BOOLEAN
    /\ result = <<>>
    /\ pc = "call"
    /\ dna_sequence = <<>>
    /\ min_dna_len = 30
    /\ strand = 0
    /\ seq = <<>>
    /\ pos = 0
    /\ matches = (0 :> <<>>)
    /\ orfs = (0 :> EmptyDict)

\* lines 40-54: the list is sorted in place, the kept ranges are returned
CallRemove ==
    /\ pc = "call"
    /\ ranges' = SortRanges(ranges, reversed)
    /\ result' = remove_contained_ranges(ranges, reversed)
    /\ pc' = "returned"
    /\ UNCHANGED <<dna_sequence, min_dna_len, strand, seq, pos, matches, orfs, reversed>>

NextSweep == CallRemove

SpecSweep == InitSweep /\ [][NextSweep]_vars

-----------------------------------------------------------------------------
(* Vocabulary of the properties *)

\* the string scanned for strand st
StrandSeq(st) == IF st = 0 THEN dna_sequence ELSE reverse_complement(dna_sequence)

\* the match loop and line 93 are over for strand st
ScanDone(st) == (st = 0 /\ strand = 1) \/ pc = "done"

\* every offset below this one has been tried by finditer on strand st
ScannedTo(st) == IF ScanDone(st) THEN Len(StrandSeq(st)) + 1 ELSE pos

AtgOffsets(sq) == {i \in 0..(Len(sq) - 3) : CodonAt(sq, i, StartCodon)}

\* the raw candidates of strand st: the [s, e) of every match yielded so far
RawMatches(st) == {matches[st][k] : k \in 1..Len(matches[st])}

\* no codon at s+3, s+6, ... is a stop codon
NoInFrameStop(sq, s) == \A k \in 1..Len(sq) : ~StopAt(sq, s + 3 * k)

\* (strand, frame, place) of every candidate held in the collection
Places ==
    UNION {UNION {{<<st, f, k>> : k \in 1..Len(orfs[st][f])} : f \in DOMAIN orfs[st]} :
              st \in DOMAIN orfs}

CandidateAt(p) == orfs[p[1]][p[2]][p[3]]

\* the nucleotide positions a candidate of strand st covers
Footprint(st, c) == IF st = 0 THEN c[1]..c[2] ELSE c[2]..c[1]

\* the strand-local offset at which a candidate of strand st starts
LocalStart(st, c) == IF st = 0 THEN c[1] - 1 ELSE Len(dna_sequence) - c[1]

\* the strand-local offset just after a candidate of strand st
LocalEnd(st, c) == IF st = 0 THEN c[2] ELSE Len(dna_sequence) - c[2] + 1

OnlyNucleotides(s) == \A k \in 1..Len(s) : s[k] \in Nucleotides

-----------------------------------------------------------------------------
(* C1 *)

\* C1 - overlap discovery: on either strand, the start offsets of the raw
\* candidates yielded so far are exactly the offsets already tried at which
\* ATG occurs, each once and in increasing order, whether or not the offset
\* lies inside an earlier candidate's span.
C1_OverlapDiscovery ==
    \A st \in DOMAIN matches :
        /\ {m[1] : m \in RawMatches(st)}
             = {i \in AtgOffsets(StrandSeq(st)) : i < ScannedTo(st)}
        /\ \A k, l \in 1..Len(matches[st]) :
               k < l => matches[st][k][1] < matches[st][l][1]

\* two in-frame start codons at p and p+6 reach the same stop codon and both
\* are raw candidates
C1_Witness ==
    /\ pc = "done"
    /\ \E m1, m2 \in RawMatches(0) :
          /\ m2[1] = m1[1] + 6
          /\ m2[2] = m1[2]
          /\ StopAt(dna_sequence, m1[2] - 3)

-----------------------------------------------------------------------------
(* C2 *)

\* C2 as stated - boundary tail: a raw candidate with no in-frame stop codon
\* downstream ends at the end of the string, a tail of 1 or 2 nucleotides
\* included.
C2_TailIncluded ==
    \A st \in DOMAIN matches : \A m \in RawMatches(st) :
        NoInFrameStop(StrandSeq(st), m[1]) => m[2] = Len(StrandSeq(st))

\* C2 amended - a raw candidate with no in-frame stop codon downstream ends
\* after its last full in-frame codon: a tail of 1 or 2 nucleotides is left
\* out of the span, and the end is the end of the string only when no tail
\* remains.
C2_TailExcluded ==
    \A st \in DOMAIN matches : \A m \in RawMatches(st) :
        NoInFrameStop(StrandSeq(st), m[1]) =>
            /\ m[2] = Len(StrandSeq(st)) - ((Len(StrandSeq(st)) - m[1]) % 3)
            /\ (m[2] - m[1]) % 3 = 0

\* a raw candidate of two codons or more without in-frame stop codon, 1 or 2
\* nucleotides after it
C2_Witness ==
    \E st \in DOMAIN matches : \E m \in RawMatches(st) :
        /\ NoInFrameStop(StrandSeq(st), m[1])
        /\ (Len(StrandSeq(st)) - m[1]) % 3 # 0
        /\ m[2] - m[1] >= 6

-----------------------------------------------------------------------------
(* C3 *)

\* C3 - stop rule: every raw candidate starts with ATG; if an in-frame codon
\* after the start is a stop codon, the candidate ends right after the first
\* such codon; no codon of the candidate but its last is a stop codon.
C3_StopRule ==
    \A st \in DOMAIN matches : \A m \in RawMatches(st) :
        LET sq == StrandSeq(st)
            s == m[1]
            e == m[2]
        IN  /\ CodonAt(sq, s, StartCodon)
            /\ \A k \in 1..Len(sq) :
                  (/\ StopAt(sq, s + 3 * k)
                   /\ \A q \in 1..(k - 1) : ~StopAt(sq, s + 3 * q))
                  => e = s + 3 * k + 3
            /\ \A q \in 0..Len(sq) : s + 3 * q + 3 < e => ~StopAt(sq, s + 3 * q)

\* a raw candidate that ends at a stop codon, with a codon before the stop and
\* a later in-frame stop codon it does not reach
C3_Witness ==
    \E st \in DOMAIN matches : \E m \in RawMatches(st) :
        /\ StopAt(StrandSeq(st), m[2] - 3)
        /\ m[2] - m[1] >= 9
        /\ \E k \in 1..Len(StrandSeq(st)) : StopAt(StrandSeq(st), m[2] + 3 * (k - 1))

-----------------------------------------------------------------------------
(* C4 *)

\* C4 - length invariant: every candidate held in the collection, before and
\* after the pruning of its frame list, has a subsequence whose length is a
\* multiple of 3 and at least min_dna_len, and is the span of a raw match.
C4_LengthInvariant ==
    \A p \in Places :
        LET c == CandidateAt(p) IN
            /\ Len(c[3]) % 3 = 0
            /\ Len(c[3]) >= min_dna_len
            /\ \E m \in RawMatches(p[1]) : c[3] = SubSeq(StrandSeq(p[1]), m[1] + 1, m[2])

\* the collection is returned with a candidate in it while a shorter raw
\* match was filtered out
C4_Witness ==
    /\ pc = "done"
    /\ min_dna_len = 6
    /\ \E p \in Places : p[1] = 1
    /\ \E m \in RawMatches(1) : m[2] - m[1] < 6

-----------------------------------------------------------------------------
(* C5 *)

\* C5 - maximality: once a strand's frame lists are pruned, no candidate's
\* footprint is a strict subset of the footprint of another candidate of the
\* same strand and frame.
C5_Maximality ==
    \A p1, p2 \in Places :
        (/\ ScanDone(p1[1])
         /\ p1[1] = p2[1]
         /\ p1[2] = p2[2]
         /\ p1[3] # p2[3])
        => LET fp1 == Footprint(p1[1], CandidateAt(p1))
               fp2 == Footprint(p2[1], CandidateAt(p2))
           IN  ~(fp1 \subseteq fp2 /\ fp1 # fp2)

\* a frame list of strand 0 keeps two candidates after a nested raw candidate
\* that passed the filter was pruned from it
C5_Witness ==
    /\ pc = "done"
    /\ \E f \in DOMAIN orfs[0] : Len(orfs[0][f]) >= 2
    /\ \E m1, m2 \in RawMatches(0) :
          /\ m1[1] < m2[1]
          /\ m1[2] = m2[2]
          /\ m2[2] - m2[1] >= min_dna_len

-----------------------------------------------------------------------------
(* C6 *)

\* C6 - coordinate mapping: a candidate of strand 0 is [s + 1, e, seq[s:e]]
\* for a raw match [s, e) and has start < end; a candidate of strand 1 is
\* [N - s, N - e + 1, seq[s:e]] and has start > end; either way
\* |start - end| + 1 is the length of its subsequence; and while a strand is
\* scanned every raw match that passes the filter is held, so mapped, in the
\* list of frame (start - 1) mod 3.
C6_CoordinateMapping ==
    LET N == Len(dna_sequence)
        Mapped(st, m) ==
            IF st = 0
            THEN <<m[1] + 1, m[2], SubSeq(StrandSeq(st), m[1] + 1, m[2])>>
            ELSE <<N - m[1], N - m[2] + 1, SubSeq(StrandSeq(st), m[1] + 1, m[2])>>
    IN  /\ \A p \in Places :
              LET c == CandidateAt(p) IN
                  /\ \E m \in RawMatches(p[1]) : c = Mapped(p[1], m)
                  /\ p[1] = 0 => c[1] < c[2] /\ c[2] - c[1] + 1 = Len(c[3])
                  /\ p[1] = 1 => c[1] > c[2] /\ c[1] - c[2] + 1 = Len(c[3])
                  /\ p[2] = (c[1] - 1) % 3
        /\ \A st \in DOMAIN matches : \A m \in RawMatches(st) :
              (/\ ~ScanDone(st)
               /\ (m[2] - m[1]) % 3 = 0
               /\ m[2] - m[1] >= min_dna_len)
              => \E p \in Places : p[1] = st /\ CandidateAt(p) = Mapped(st, m)

\* the collection is returned with candidates on both strands
C6_Witness ==
    /\ pc = "done"
    /\ \E p \in Places : p[1] = 0
    /\ \E p \in Places : p[1] = 1 /\ CandidateAt(p)[2] > 1

-----------------------------------------------------------------------------
(* C7 *)

\* C7 - coordinate symmetry: the frame lists returned for strand 1 of S hold
\* exactly the candidates that strand 0 of reverse_complement(S) yields, every
\* coordinate x replaced by N + 1 - x and the subsequences unchanged, frame
\* group by frame group under a one-to-one relabelling of the frames.
C7_CoordinateSymmetry ==
    pc = "done" =>
        LET N == Len(dna_sequence)
            other == StrandOrfs(reverse_complement(dna_sequence), 0, min_dna_len)
            Flip(c) == <<N + 1 - c[1], N + 1 - c[2], c[3]>>
            SetOf(list) == {list[k] : k \in 1..Len(list)}
        IN  \E pi \in [DOMAIN other -> DOMAIN orfs[1]] :
                /\ \A g1, g2 \in DOMAIN other : pi[g1] = pi[g2] => g1 = g2
                /\ \A f \in DOMAIN orfs[1] : \E g \in DOMAIN other : pi[g] = f
                /\ \A g \in DOMAIN other :
                      /\ SetOf(orfs[1][pi[g]]) = {Flip(c) : c \in SetOf(other[g])}
                      /\ Len(orfs[1][pi[g]]) = Len(other[g])

\* strand 1 is returned with candidates in two frame groups, two of them in
\* one group
C7_Witness ==
    /\ pc = "done"
    /\ \E f, g \in DOMAIN orfs[1] : f # g /\ Len(orfs[1][f]) >= 2 /\ Len(orfs[1][g]) >= 1

-----------------------------------------------------------------------------
(* C8 *)

-----------------------------------------------------------------------------
(* C9 *)

\* C9 - sweep completeness: after remove_contained_ranges the list is in
\* (low ascending, high descending) order; the ranges returned are exactly
\* those whose high strictly exceeds the high of every range before them in
\* that order; every other range lies within a range returned that comes
\* earlier in the order; the ranges are returned in ascending-low order.
C9_SweepCompleteness ==
    pc = "returned" =>
        LET Low(r) == IF reversed THEN r[2] ELSE r[1]
            High(r) == IF reversed THEN r[1] ELSE r[2]
            n == Len(ranges)
            KeptIdx == {k \in 1..n : \A j \in 1..(k - 1) : High(ranges[j]) < High(ranges[k])}
        IN  /\ \A k, l \in 1..n :
                  k < l => \/ Low(ranges[k]) < Low(ranges[l])
                           \/ /\ Low(ranges[k]) = Low(ranges[l])
                              /\ High(ranges[k]) >= High(ranges[l])
            /\ {result[k] : k \in 1..Len(result)} = {ranges[k] : k \in KeptIdx}
            /\ Len(result) = Cardinality(KeptIdx)
            /\ \A k \in (1..n) \ KeptIdx :
                  \E j \in KeptIdx :
                      /\ j < k
                      /\ Low(ranges[j]) <= Low(ranges[k])
                      /\ High(ranges[k]) <= High(ranges[j])
            /\ \A k, l \in 1..Len(result) :
                  k < l => Low(result[k]) <= Low(result[l])

\* a reversed call returned two ranges and dropped a third one
C9_Witness ==
    /\ pc = "returned"
    /\ reversed
    /\ Len(result) = 2
    /\ Len(ranges) = 3

-----------------------------------------------------------------------------
(* C10 *)

\* C10 - disjoint survivors: once a strand's frame lists are pruned, two
\* candidates of the same strand and frame start at strand-local offsets
\* congruent modulo 3 and share no nucleotide position; and two raw
\* candidates of a strand whose starts are congruent modulo 3 end at the same
\* offset or do not overlap.
C10_DisjointSurvivors ==
    /\ \A p1, p2 \in Places :
          (/\ ScanDone(p1[1])
           /\ p1[1] = p2[1]
           /\ p1[2] = p2[2]
           /\ p1[3] # p2[3])
          => LET c1 == CandidateAt(p1)
                 c2 == CandidateAt(p2)
             IN  /\ LocalStart(p1[1], c1) % 3 = LocalStart(p2[1], c2) % 3
                 /\ Footprint(p1[1], c1) \cap Footprint(p2[1], c2) = {}
    /\ \A st \in DOMAIN matches : \A m1, m2 \in RawMatches(st) :
          (m1[1] < m2[1] /\ m1[1] % 3 = m2[1] % 3)
          => (m1[2] = m2[2] \/ m1[2] <= m2[1])

\* strand 1 is returned with two adjacent candidates in one frame list (the
\* one starts right after the other's stop codon), a third raw candidate
\* nested in one of them having been pruned
C10_Witness ==
    /\ pc = "done"
    /\ \E p1, p2 \in Places :
          /\ p1[1] = 1 /\ p2[1] = 1
          /\ p1[2] = p2[2]
          /\ LocalEnd(1, CandidateAt(p1)) = LocalStart(1, CandidateAt(p2))
    /\ \E m1, m2 \in RawMatches(1) :
          /\ m1[1] < m2[1]
          /\ m1[2] = m2[2]
          /\ m2[2] - m2[1] >= min_dna_len

====
